---- MODULE Spec2Model ----
(***************************************************************************)
(* Model of localstack/services/cloudformation/resource_provider.py:       *)
(* the provider registry, register_resource_provider, convert_payload,     *)
(* ResourceProviderExecutor.execute_action and                              *)
(* ResourceProviderExecutor.deploy_loop.                                    *)
(*                                                                         *)
(* Python objects that can be shared are kept in a heap keyed by           *)
(* reference, so that copy.deepcopy and an assignment of the same object   *)
(* are different things.  Dictionaries are functions whose domain is the   *)
(* set of keys present.  Exceptions are values [cls, args].                *)
(***************************************************************************)
EXTENDS Integers, Sequences, FiniteSets, TLC

\* ------------------------------------------------------------------ bounds
\* Largest max_iterations a caller passes to deploy_loop.
MaxIter == 3

\* Largest max_iterations of each of two deploy_loop calls made side by side.
MaxIterPair == 2

\* Keys and values of callbackContext / custom_context dictionaries.  The
\* contexts a caller starts from (InitialContexts), the contexts a provider
\* returns (EventContexts) and its in-place changes (InPlaceOps) are chosen
\* among them below so that a merge overrides a key, adds a key and keeps a
\* key.
Keys == {"a", "b"}
Vals == {1, 2}

\* ------------------------------------------------------------ plain values
None == "None"

\* Python truthiness of an optional string (None and "" are falsy).
Truthy(v) == v \notin {None, ""}

\* All dictionaries over Keys and Vals.
Dicts == UNION {[K -> Vals] : K \in SUBSET Keys}

EmptyDict == [k \in {} |-> 1]

\* A merge in which the left operand wins.
DictMergeLeftWins(d, e) ==
    [k \in (DOMAIN d) \cup (DOMAIN e) |-> IF k \in DOMAIN d THEN d[k] ELSE e[k]]

\* {**d, **e}: the keys of both, e's value where both have the key.
DictMerge(d, e) ==
    [k \in (DOMAIN d) \cup (DOMAIN e) |-> IF k \in DOMAIN e THEN e[k] ELSE d[k]]

\* ------------------------------------------------------------- State Model
OperationStatus == {"PENDING", "IN_PROGRESS", "SUCCESS", "FAILED"}

\* The events an invocation has seen are counted per class: SUCCESS, FAILED,
\* and the two statuses that report work under way.
StatusClasses == {"SUCCESS", "FAILED", "UNDERWAY"}

StatusClass(status) ==
    IF status \in {"PENDING", "IN_PROGRESS"} THEN "UNDERWAY" ELSE status

\* The dataclass ProgressEvent.
ProgressEvent(status, resource_model, message, result, error_code, custom_context) ==
    [status         |-> status,
     resource_model |-> resource_model,
     message        |-> message,
     result         |-> result,
     error_code     |-> error_code,
     custom_context |-> custom_context]

\* Placeholder where no event exists (an attempt that raised, or none yet).
NoEvent ==
    [status         |-> "NONE",
     resource_model |-> None,
     message        |-> "",
     result         |-> None,
     error_code     |-> None,
     custom_context |-> EmptyDict]

\* ------------------------------------------------------------- exceptions
NoError == [cls |-> None, args |-> <<>>]

\* The builtin NotImplementedError with the given constructor arguments.
NotImplementedError(args) == [cls |-> "NotImplementedError", args |-> args]

\* ResourceProvider.create / update / delete: raise NotImplementedError
BaseCapabilityError == NotImplementedError(<<>>)

\* execute_action, type not in the private registry: raise NotImplementedError
UnregisteredError == NotImplementedError(<<>>)

\* execute_action, default case: raise NotImplementedError(change_type)
UnsupportedActionError(change_type) == NotImplementedError(<<change_type>>)

\* raise TimeoutError("Could not perform deploy loop action")
DeployTimeoutError ==
    [cls |-> "TimeoutError", args |-> <<"Could not perform deploy loop action">>]

\* An exception raised by a concrete provider's own code.
ProviderError == [cls |-> "RuntimeError", args |-> <<"provider failed">>]

\* --------------------------------------------------------- provider classes
\* The provider classes of the model.  Full and Alt declare the same TYPE;
\* Bare overrides nothing of the base class; NoType declares no TYPE and
\* EmptyType declares TYPE = "".
Classes == {"Full", "Alt", "Bare", "NoType", "EmptyType"}

\* getattr(cls, "TYPE", None)
TypeOf(cls) ==
    CASE cls = "Full"      -> "T1"
      [] cls = "Alt"       -> "T1"
      [] cls = "Bare"      -> "T2"
      [] cls = "EmptyType" -> ""
      [] OTHER             -> None

Capabilities == {"create", "update", "delete"}

\* The capabilities a class overrides; the others are ResourceProvider's.
Overrides(cls) ==
    CASE cls = "Full" -> {"create", "update", "delete"}
      [] cls = "Alt"  -> {"create"}
      [] OTHER        -> {}

\* Type names an executor is constructed with and a registry is keyed by.
TypeNames == {"T1", "T2"}

\* ---------------------------------------------------------------- payloads
ActionStrings == {"Add", "Modify", "Dynamic", "Remove", "Import"}

\* The ResourceProviderPayload fields the code reads.
Payload(action, callbackContext) ==
    [action          |-> action,
     callbackContext |-> callbackContext,
     region          |-> "us-east-1",
     requestData     |->
        [logicalResourceId          |-> "Res",
         resourceProperties         |-> "desired",
         previousResourceProperties |-> "previous",
         callerCredentials          |->
            [accessKeyId |-> "ak", secretAccessKey |-> "sk", sessionToken |-> "st"]]]

\* The callbackContext of the payload the caller starts from.
InitialContexts == {EmptyDict, [k \in {"a"} |-> 1]}

RawPayloads == {Payload(a, c) : a \in ActionStrings, c \in InitialContexts}

\* Invocations: one caller-side call (of deploy_loop or of execute_action)
\* each, on an executor of its own.
Invocations == {"I1", "I2"}

\* Heap references of payload objects: the caller's, and one copy per
\* invocation.
RawRef == "raw"

VARIABLES
    PRIVATE_REGISTRY,  \* dict: type name -> provider class
    PUBLIC_REGISTRY,   \* dict: type name -> provider class
    heap,              \* payload objects by reference
    executor,          \* per invocation: the ResourceProviderExecutor (or None)
    pc,                \* per invocation: position of the call
    mode,              \* per invocation: which method was called
    max_iterations,    \* per invocation: deploy_loop's argument
    iter,              \* per invocation: iterations of the for loop started
    payload,           \* per invocation: reference held by local `payload`
    attempt,           \* per invocation: what the last execute_action did
    outcome,           \* per invocation: how the call ended
    sleeps,            \* per invocation: time.sleep calls made
    invoked,           \* per invocation: capabilities invoked, in order
    seen,              \* per invocation: number of events seen, per status class
    instantiated,      \* per invocation: provider instances constructed
    converted,         \* per invocation: convert_payload calls made
    rawAtCall,         \* per invocation: the caller's payload when called
    prevContext,       \* per invocation: callbackContext given to the last merge
    lastReg            \* type name -> class most recently registered under it

vars == <<PRIVATE_REGISTRY, PUBLIC_REGISTRY, heap, executor, pc, mode,
          max_iterations, iter, payload, attempt, outcome, sleeps, invoked,
          seen, instantiated, converted, rawAtCall, prevContext,
          lastReg>>

\* ------------------------------------------------------------ the registry
\* A lookup that falls back to a default class for an unknown name.
RegistryGetDefault(reg, name) == IF name \in DOMAIN reg THEN reg[name] ELSE "Bare"

\* A lookup that falls back to the public registry.
RegistryGetThenPublic(reg, name) ==
    IF name \in DOMAIN reg THEN reg[name]
    ELSE IF name \in DOMAIN PUBLIC_REGISTRY THEN PUBLIC_REGISTRY[name]
    ELSE None

\* PRIVATE_REGISTRY.get(name)
RegistryGet(reg, name) == IF name \in DOMAIN reg THEN reg[name] ELSE None

\* reg[name] = cls
RegistrySet(reg, name, cls) ==
    [n \in (DOMAIN reg) \cup {name} |-> IF n = name THEN cls ELSE reg[n]]

\* A registration that keeps an entry already present (setdefault).
RegisterFirstWins(reg, cls) ==
    IF Truthy(TypeOf(cls)) /\ TypeOf(cls) \notin DOMAIN reg
    THEN RegistrySet(reg, TypeOf(cls), cls)
    ELSE reg

\* register_resource_provider(cls): the private registry afterwards.
register_resource_provider(reg, cls) ==
    IF Truthy(TypeOf(cls)) THEN RegistrySet(reg, TypeOf(cls), cls) ELSE reg

\* --------------------------------------------------------- the translator
\* A translator that leaves custom_context at the dataclass default.
ConvertPayloadNoContext(stack_name, stack_id, p, token) ==
    [original_payload    |-> p.requestData.resourceProperties,
     aws_client_factory  |->
        [aws_access_key_id     |-> p.requestData.callerCredentials.accessKeyId,
         aws_session_token     |-> p.requestData.callerCredentials.sessionToken,
         aws_secret_access_key |-> p.requestData.callerCredentials.secretAccessKey,
         region_name           |-> p.region],
     request_token       |-> token,
     stack_name          |-> stack_name,
     stack_id            |-> stack_id,
     account_id          |-> "000000000000",
     region_name         |-> "us-east-1",
     desired_state       |-> p.requestData.resourceProperties,
     logical_resource_id |-> p.requestData.logicalResourceId,
     custom_context      |-> EmptyDict,
     previous_state      |-> None,
     previous_tags       |-> None,
     tags                |-> EmptyDict]

\* convert_payload(stack_name, stack_id, payload).  custom_context is the
\* payload's callbackContext object itself (no copy); previous_state, tags
\* and previous_tags are left at the dataclass defaults.  token stands for
\* the fresh uuid4.
convert_payload(stack_name, stack_id, p, token) ==
    [original_payload    |-> p.requestData.resourceProperties,
     aws_client_factory  |->
        [aws_access_key_id     |-> p.requestData.callerCredentials.accessKeyId,
         aws_session_token     |-> p.requestData.callerCredentials.sessionToken,
         aws_secret_access_key |-> p.requestData.callerCredentials.secretAccessKey,
         region_name           |-> p.region],
     request_token       |-> token,
     stack_name          |-> stack_name,
     stack_id            |-> stack_id,
     account_id          |-> "000000000000",
     region_name         |-> "us-east-1",
     desired_state       |-> p.requestData.resourceProperties,
     logical_resource_id |-> p.requestData.logicalResourceId,
     custom_context      |-> p.callbackContext,
     previous_state      |-> None,
     previous_tags       |-> None,
     tags                |-> EmptyDict]

NoRequest == None

\* ------------------------------------------------------ provider behaviour
\* What a concrete provider may do to request.custom_context in place
\* before it returns or raises: nothing, set a key, or pop a key.
InPlaceOps ==
    {[op |-> "keep", k |-> "a", v |-> 1],
     [op |-> "set", k |-> "b", v |-> 2],
     [op |-> "pop", k |-> "a", v |-> 1]}

KeepOp == [op |-> "keep", k |-> "a", v |-> 1]

ApplyInPlace(d, m) ==
    CASE m.op = "set" -> [x \in (DOMAIN d) \cup {m.k} |-> IF x = m.k THEN m.v ELSE d[x]]
      [] m.op = "pop" -> [x \in (DOMAIN d) \ {m.k} |-> d[x]]
      [] OTHER        -> d

\* One call of an overridden capability: it returns an event of any status
\* and custom_context, or raises; either way it may first change
\* request.custom_context in place.
EventContexts == {EmptyDict, [k \in {"a"} |-> 2], [k \in {"b"} |-> 1]}

\* A provider fills message and error_code when it reports FAILED and result
\* when it reports SUCCESS.
Behaviours ==
    [raises : {FALSE}, status : {"PENDING", "IN_PROGRESS"},
     message : {""}, result : {None}, error_code : {None},
     custom_context : EventContexts, inplace : InPlaceOps]
    \cup [raises : {FALSE}, status : {"SUCCESS"},
          message : {""}, result : {"created"}, error_code : {None},
          custom_context : EventContexts, inplace : InPlaceOps]
    \cup [raises : {FALSE}, status : {"FAILED"},
          message : {"failed"}, result : {None}, error_code : {"InternalFailure"},
          custom_context : EventContexts, inplace : InPlaceOps]
    \cup [raises : {TRUE}, status : {"FAILED"},
          message : {""}, result : {None}, error_code : {None},
          custom_context : {EmptyDict}, inplace : InPlaceOps]

\* The result of one execute_action call: the event returned or the error
\* raised, and what the call did on the way.
AttemptResult(kind, event, error, path, action, request, caps, inst, conv, inplace) ==
    [kind         |-> kind,
     event        |-> event,
     error        |-> error,
     path         |-> path,
     action       |-> action,
     request      |-> request,
     caps         |-> caps,
     instantiated |-> inst,
     converted    |-> conv,
     inplace      |-> inplace]

NoAttempt ==
    AttemptResult("none", NoEvent, NoError, "none", None, NoRequest, <<>>, 0, 0, KeepOp)

\* A return that builds a new event from the status, model and context of
\* the provider's event.
ReturnFreshEvent(event) ==
    ProgressEvent(event.status, event.resource_model, "", None, None,
                  event.custom_context)

\* return provider.<cap>(request): the provider's event is the value returned.
ReturnEvent(event) == event

\* provider.<cap>(request): ResourceProvider's method raises
\* NotImplementedError unless the class overrides it; an overriding method
\* behaves as beh says.
InvokeCapability(cls, cap, action, request, beh) ==
    IF cap \notin Overrides(cls)
    THEN AttemptResult("error", NoEvent, BaseCapabilityError, "base", action,
                       request, <<cap>>, 1, 1, KeepOp)
    ELSE IF beh.raises
    THEN AttemptResult("error", NoEvent, ProviderError, "provider", action,
                       request, <<cap>>, 1, 1, beh.inplace)
    ELSE AttemptResult("event",
                       ReturnEvent(ProgressEvent(beh.status, request.desired_state,
                                                 beh.message, beh.result,
                                                 beh.error_code, beh.custom_context)),
                       NoError, "provider", action, request, <<cap>>, 1, 1, beh.inplace)

\* A dispatch that sends "Dynamic" to create.
CapabilityForDynamicCreates(change_type) ==
    CASE change_type \in {"Add", "Dynamic"} -> "create"
      [] change_type = "Modify"             -> "update"
      [] change_type = "Remove"             -> "delete"
      [] OTHER                              -> None

\* The match statement of execute_action: the capability of an action
\* string, None for the default case.
CapabilityFor(change_type) ==
    CASE change_type = "Add"                   -> "create"
      [] change_type \in {"Dynamic", "Modify"} -> "update"
      [] change_type = "Remove"                -> "delete"
      [] OTHER                                 -> None

\* execute_action(self, raw_payload) on executor ex with registry reg.
execute_action(reg, ex, p, token, beh) ==
    LET provider_cls == RegistryGet(reg, ex.resource_type)
    IN  IF provider_cls # None
        THEN LET change_type == p.action
                 request     == convert_payload(ex.stack_name, ex.stack_id, p, token)
                 cap         == CapabilityFor(change_type)
             IN  IF cap = None
                 THEN AttemptResult("error", NoEvent, UnsupportedActionError(change_type),
                                    "action", change_type, request, <<>>, 1, 1, KeepOp)
                 ELSE InvokeCapability(provider_cls, cap, change_type, request, beh)
        ELSE AttemptResult("error", NoEvent, UnregisteredError, "unregistered",
                           p.action, NoRequest, <<>>, 0, 0, KeepOp)

\* -------------------------------------------------------------- the state
NoOutcome == [kind |-> "none", event |-> NoEvent, error |-> NoError]

Returned(event) == [kind |-> "returned", event |-> event, error |-> NoError]

Raised(error) == [kind |-> "raised", event |-> NoEvent, error |-> error]

NoExecutor == [resource_type |-> None, stack_name |-> None, stack_id |-> None]

\* ResourceProviderExecutor.__init__
NewExecutor(resource_type, stack_name, stack_id) ==
    [resource_type |-> resource_type, stack_name |-> stack_name, stack_id |-> stack_id]

\* The module after import: both registries empty.  The caller holds one
\* raw payload object; no executor exists and no call has been made.
Init ==
    /\ PRIVATE_REGISTRY = [n \in {} |-> None]
    /\ PUBLIC_REGISTRY = [n \in {} |-> None]
    /\ \E p \in RawPayloads : heap = [r \in {RawRef} |-> p]
    /\ executor = [l \in Invocations |-> NoExecutor]
    /\ pc = [l \in Invocations |-> "new"]
    /\ mode = [l \in Invocations |-> None]
    /\ max_iterations = [l \in Invocations |-> 0]
    /\ iter = [l \in Invocations |-> 0]
    /\ payload = [l \in Invocations |-> RawRef]
    /\ attempt = [l \in Invocations |-> NoAttempt]
    /\ outcome = [l \in Invocations |-> NoOutcome]
    /\ sleeps = [l \in Invocations |-> 0]
    /\ invoked = [l \in Invocations |-> <<>>]
    /\ seen = [l \in Invocations |-> [c \in StatusClasses |-> 0]]
    /\ instantiated = [l \in Invocations |-> 0]
    /\ converted = [l \in Invocations |-> 0]
    /\ rawAtCall = [l \in Invocations |-> heap[RawRef]]
    /\ prevContext = [l \in Invocations |-> EmptyDict]
    /\ lastReg = [n \in TypeNames |-> None]

\* ------------------------------------------------------------ registration
\* @register_resource_provider applied to class cls.
Register(cls) ==
    /\ PRIVATE_REGISTRY' = register_resource_provider(PRIVATE_REGISTRY, cls)
    /\ lastReg' = IF TypeOf(cls) \in TypeNames
                  THEN [lastReg EXCEPT ![TypeOf(cls)] = cls]
                  ELSE lastReg
    /\ UNCHANGED <<PUBLIC_REGISTRY, heap, executor, pc, mode, max_iterations, iter,
                   payload, attempt, outcome, sleeps, invoked, seen,
                   instantiated, converted, rawAtCall, prevContext>>

\* Code outside the module stores class cls in PUBLIC_REGISTRY, the
\* module-level dict; nothing in the module writes it.
PopulatePublic(cls) ==
    /\ Truthy(TypeOf(cls))
    /\ PUBLIC_REGISTRY' = RegistrySet(PUBLIC_REGISTRY, TypeOf(cls), cls)
    /\ UNCHANGED <<PRIVATE_REGISTRY, heap, executor, pc, mode, max_iterations, iter,
                   payload, attempt, outcome, sleeps, invoked, seen,
                   instantiated, converted, rawAtCall, prevContext, lastReg>>

\* ResourceProviderExecutor(resource_type, stack_name, stack_id)
Construct(l, t) ==
    /\ pc[l] = "new"
    /\ executor' = [executor EXCEPT ![l] = NewExecutor(t, "stack", "stack-id")]
    /\ pc' = [pc EXCEPT ![l] = "ready"]
    /\ UNCHANGED <<PRIVATE_REGISTRY, PUBLIC_REGISTRY, heap, mode, max_iterations,
                   iter, payload, attempt, outcome, sleeps, invoked, seen,
                   instantiated, converted, rawAtCall, prevContext, lastReg>>

\* ------------------------------------------------------------ one attempt
\* A translation that is made once and whose request is used again.
FirstToken(l) == <<l, 1>>

\* The fresh request token of the next translation of invocation l.
NextToken(l) == <<l, converted[l] + 1>>

\* The bookkeeping common to every execute_action call of invocation l on
\* the payload object at reference ref: the provider's in-place change of
\* request.custom_context lands in that payload's callbackContext.
RunAttempt(l, ref, r) ==
    /\ attempt' = [attempt EXCEPT ![l] = r]
    /\ heap' = [heap EXCEPT ![ref].callbackContext = ApplyInPlace(@, r.inplace)]
    /\ prevContext' = [prevContext EXCEPT
                         ![l] = ApplyInPlace(heap[ref].callbackContext, r.inplace)]
    /\ invoked' = [invoked EXCEPT ![l] = @ \o r.caps]
    /\ instantiated' = [instantiated EXCEPT ![l] = @ + r.instantiated]
    /\ converted' = [converted EXCEPT ![l] = @ + r.converted]
    /\ seen' = [seen EXCEPT
                  ![l] = IF r.kind = "event"
                         THEN [@ EXCEPT ![StatusClass(r.event.status)] = @ + 1]
                         ELSE @]

\* A direct call executor.execute_action(raw_payload) by the caller.
ExecuteActionCall(l, beh) ==
    /\ pc[l] = "ready"
    /\ LET r == execute_action(PRIVATE_REGISTRY, executor[l], heap[RawRef],
                               NextToken(l), beh)
       IN  /\ RunAttempt(l, RawRef, r)
           /\ outcome' = [outcome EXCEPT
                            ![l] = IF r.kind = "event" THEN Returned(r.event)
                                   ELSE Raised(r.error)]
    /\ mode' = [mode EXCEPT ![l] = "execute_action"]
    /\ rawAtCall' = [rawAtCall EXCEPT ![l] = heap[RawRef]]
    /\ pc' = [pc EXCEPT ![l] = "done"]
    /\ UNCHANGED <<PRIVATE_REGISTRY, PUBLIC_REGISTRY, executor, max_iterations, iter,
                   payload, sleeps, lastReg>>

\* ------------------------------------------------------------ deploy_loop
\* A deploy_loop that loops on the caller's object instead of a copy.
SameObjectRef(l) == RawRef

\* A deploy_loop whose calls all loop on one copy kept between calls.
SharedCopyRef(l) == "I1"

\* payload = copy.deepcopy(raw_payload): the local refers to a new object.
DeepCopyRef(l) == l

\* executor.deploy_loop(raw_payload, max_iterations=m): the deep copy.
DeployLoopCall(l, m) ==
    /\ pc[l] = "ready"
    /\ mode' = [mode EXCEPT ![l] = "deploy_loop"]
    /\ max_iterations' = [max_iterations EXCEPT ![l] = m]
    /\ heap' = [r \in (DOMAIN heap) \cup {DeepCopyRef(l)} |->
                  IF r = DeepCopyRef(l) THEN heap[RawRef] ELSE heap[r]]
    /\ payload' = [payload EXCEPT ![l] = DeepCopyRef(l)]
    /\ rawAtCall' = [rawAtCall EXCEPT ![l] = heap[RawRef]]
    /\ pc' = [pc EXCEPT ![l] = "for"]
    /\ UNCHANGED <<PRIVATE_REGISTRY, PUBLIC_REGISTRY, executor, iter, attempt,
                   outcome, sleeps, invoked, seen, instantiated, converted,
                   prevContext, lastReg>>

\* A range that runs one iteration too many.
LoopRangeInclusive(m) == 0..m

\* range(max_iterations)
LoopRange(m) == 0..(m - 1)

\* A loop that treats FAILED as final, like SUCCESS.
IsSuccessOrFailed(event) == event.status \in {"SUCCESS", "FAILED"}

\* event.status == OperationStatus.SUCCESS
IsSuccess(event) == event.status = "SUCCESS"

\* A loop that catches what a provider raises and goes on to the next
\* iteration.
LeavesLoopUnlessProvider(r) == r.kind = "error" /\ r.path # "provider"

\* deploy_loop has no try/except: an error raised inside execute_action
\* leaves the loop.
LeavesLoop(r) == r.kind = "error"

\* for _ in range(max_iterations): event = self.execute_action(payload).
\* An error raised by the attempt leaves deploy_loop at once.
LoopAttempt(l, beh) ==
    /\ pc[l] = "for"
    /\ iter[l] \in LoopRange(max_iterations[l])
    /\ iter' = [iter EXCEPT ![l] = @ + 1]
    /\ LET r == execute_action(PRIVATE_REGISTRY, executor[l], heap[payload[l]],
                               NextToken(l), beh)
       IN  /\ RunAttempt(l, payload[l], r)
           /\ IF LeavesLoop(r)
              THEN /\ outcome' = [outcome EXCEPT ![l] = Raised(r.error)]
                   /\ pc' = [pc EXCEPT ![l] = "done"]
              ELSE /\ outcome' = outcome
                   /\ pc' = [pc EXCEPT ![l] = "check"]
    /\ UNCHANGED <<PRIVATE_REGISTRY, PUBLIC_REGISTRY, executor, mode, max_iterations,
                   payload, sleeps, rawAtCall, lastReg>>

\* A loop that sleeps before it looks at the status.
LoopReturnAfterSleep(l) ==
    /\ pc[l] = "check"
    /\ IsSuccess(attempt[l].event)
    /\ sleeps' = [sleeps EXCEPT ![l] = @ + 1]
    /\ outcome' = [outcome EXCEPT ![l] = Returned(attempt[l].event)]
    /\ pc' = [pc EXCEPT ![l] = "done"]
    /\ UNCHANGED <<PRIVATE_REGISTRY, PUBLIC_REGISTRY, heap, executor, mode,
                   max_iterations, iter, payload, attempt, invoked, seen,
                   instantiated, converted, rawAtCall, prevContext, lastReg>>

\* if event.status == SUCCESS: return event
LoopReturn(l) ==
    /\ pc[l] = "check"
    /\ IsSuccess(attempt[l].event)
    /\ outcome' = [outcome EXCEPT ![l] = Returned(attempt[l].event)]
    /\ pc' = [pc EXCEPT ![l] = "done"]
    /\ UNCHANGED <<PRIVATE_REGISTRY, PUBLIC_REGISTRY, heap, executor, mode,
                   max_iterations, iter, payload, attempt, sleeps, invoked, seen,
                   instantiated, converted, rawAtCall, prevContext, lastReg>>

\* A loop that merges and goes straight on to the next iteration.
LoopMergeNoSleep(l) ==
    /\ pc[l] = "check"
    /\ ~IsSuccess(attempt[l].event)
    /\ heap' = [heap EXCEPT
                  ![payload[l]].callbackContext =
                      DictMerge(@, attempt[l].event.custom_context)]
    /\ pc' = [pc EXCEPT ![l] = "for"]
    /\ UNCHANGED <<PRIVATE_REGISTRY, PUBLIC_REGISTRY, executor, mode, max_iterations,
                   iter, payload, attempt, outcome, sleeps, invoked, seen,
                   instantiated, converted, rawAtCall, prevContext, lastReg>>

\* context = {**payload["callbackContext"], **event.custom_context}
\* payload["callbackContext"] = context
LoopMerge(l) ==
    /\ pc[l] = "check"
    /\ ~IsSuccess(attempt[l].event)
    /\ heap' = [heap EXCEPT
                  ![payload[l]].callbackContext =
                      DictMerge(@, attempt[l].event.custom_context)]
    /\ pc' = [pc EXCEPT ![l] = "sleep"]
    /\ UNCHANGED <<PRIVATE_REGISTRY, PUBLIC_REGISTRY, executor, mode, max_iterations,
                   iter, payload, attempt, outcome, sleeps, invoked, seen,
                   instantiated, converted, rawAtCall, prevContext, lastReg>>

\* A loop that sleeps between attempts only, not after the last one.
LoopSleepBetween(l) ==
    /\ pc[l] = "sleep"
    /\ sleeps' = [sleeps EXCEPT
                    ![l] = IF iter[l] = max_iterations[l] THEN @ ELSE @ + 1]
    /\ pc' = [pc EXCEPT ![l] = "for"]
    /\ UNCHANGED <<PRIVATE_REGISTRY, PUBLIC_REGISTRY, heap, executor, mode,
                   max_iterations, iter, payload, attempt, outcome, invoked, seen,
                   instantiated, converted, rawAtCall, prevContext, lastReg>>

\* A sleep that does not return.
LoopSleepBlocks(l) ==
    /\ pc[l] = "sleep"
    /\ UNCHANGED vars

\* time.sleep(sleep_time)
LoopSleep(l) ==
    /\ pc[l] = "sleep"
    /\ sleeps' = [sleeps EXCEPT ![l] = @ + 1]
    /\ pc' = [pc EXCEPT ![l] = "for"]
    /\ UNCHANGED <<PRIVATE_REGISTRY, PUBLIC_REGISTRY, heap, executor, mode,
                   max_iterations, iter, payload, attempt, outcome, invoked, seen,
                   instantiated, converted, rawAtCall, prevContext, lastReg>>

\* else: raise TimeoutError("Could not perform deploy loop action")
LoopExhausted(l) ==
    /\ pc[l] = "for"
    /\ iter[l] \notin LoopRange(max_iterations[l])
    /\ outcome' = [outcome EXCEPT ![l] = Raised(DeployTimeoutError)]
    /\ pc' = [pc EXCEPT ![l] = "done"]
    /\ UNCHANGED <<PRIVATE_REGISTRY, PUBLIC_REGISTRY, heap, executor, mode,
                   max_iterations, iter, payload, attempt, sleeps, invoked, seen,
                   instantiated, converted, rawAtCall, prevContext, lastReg>>

\* ------------------------------------------------------- specifications
\* One caller making one call: registrations may happen at any time.
Next ==
    \/ \E cls \in Classes : Register(cls)
    \/ \E t \in TypeNames : Construct("I1", t)
    \/ \E beh \in Behaviours : ExecuteActionCall("I1", beh)
    \/ \E m \in 0..MaxIter : DeployLoopCall("I1", m)
    \/ \E beh \in Behaviours : LoopAttempt("I1", beh)
    \/ LoopReturn("I1")
    \/ LoopMerge("I1")
    \/ LoopSleep("I1")
    \/ LoopExhausted("I1")

Spec == Init /\ [][Next]_vars

\* Providers that leave request.custom_context alone: how a loop ends does
\* not depend on the context.
LiveBehaviours == {beh \in Behaviours : beh.inplace = KeepOp}

\* The thread that called deploy_loop keeps running: every provider call
\* returns or raises and every sleep returns, so the next statement of the
\* loop is executed.
LoopStep(l) ==
    \/ \E beh \in LiveBehaviours : LoopAttempt(l, beh)
    \/ LoopReturn(l)
    \/ LoopMerge(l)
    \/ LoopSleep(l)
    \/ LoopExhausted(l)

\* One caller making one deploy_loop call, with the classes registered
\* before the executor is constructed (registration at import time).
NextLive ==
    \/ \E cls \in Classes : pc["I1"] = "new" /\ Register(cls)
    \/ \E t \in TypeNames : Construct("I1", t)
    \/ \E m \in 0..MaxIter : DeployLoopCall("I1", m)
    \/ LoopStep("I1")

SpecLive == Init /\ [][NextLive]_vars /\ WF_vars(LoopStep("I1"))

\* One caller making one call, with registrations at any time and with a
\* custom provider placed in the public registry from outside.
NextPublic ==
    \/ \E cls \in Classes : Register(cls)
    \/ PopulatePublic("Full")
    \/ \E t \in TypeNames : Construct("I1", t)
    \/ \E beh \in LiveBehaviours : ExecuteActionCall("I1", beh)
    \/ \E m \in 0..MaxIter : DeployLoopCall("I1", m)
    \/ LoopStep("I1")

SpecPublic == Init /\ [][NextPublic]_vars

\* Two deploy_loop calls on the caller's one "Add" payload object, their
\* steps interleaved in any order; Full and Bare are registered or not before
\* the executors are constructed.  The providers answer IN_PROGRESS or
\* SUCCESS or raise, and may pop a key of request.custom_context in place.
PairBehaviours ==
    {beh \in Behaviours :
        /\ beh.status \in {"IN_PROGRESS", "SUCCESS"} \/ beh.raises
        /\ beh.custom_context # EmptyDict \/ beh.raises
        /\ beh.inplace.op \in {"keep", "pop"}}

NextPair ==
    \/ \E cls \in {"Full", "Bare"} :
          (\A l \in Invocations : pc[l] = "new") /\ Register(cls)
    \/ \E l \in Invocations, t \in TypeNames : Construct(l, t)
    \/ \E l \in Invocations, m \in 0..MaxIterPair : DeployLoopCall(l, m)
    \/ \E l \in Invocations, beh \in PairBehaviours : LoopAttempt(l, beh)
    \/ \E l \in Invocations : LoopReturn(l)
    \/ \E l \in Invocations : LoopMerge(l)
    \/ \E l \in Invocations : LoopSleep(l)
    \/ \E l \in Invocations : LoopExhausted(l)

\* The caller's payload asks for a creation.
InitPair == Init /\ heap[RawRef].action = "Add"

SpecPair == InitPair /\ [][NextPair]_vars

\* Two callers, each making direct execute_action calls only.
NextDispatch ==
    \/ \E cls \in Classes : Register(cls)
    \/ \E l \in Invocations, t \in TypeNames : Construct(l, t)
    \/ \E l \in Invocations, beh \in Behaviours : ExecuteActionCall(l, beh)

SpecDispatch == Init /\ [][NextDispatch]_vars

\* -------------------------------------------------------------- properties
\* Invocations that are deploy_loop calls.
InLoop(l) == mode[l] = "deploy_loop"

\* Events of a status other than SUCCESS that invocation l has seen.
NonSuccess(l) == seen[l]["FAILED"] + seen[l]["UNDERWAY"]

\* The step of invocation l is one execute_action call.
AttemptStep(l) ==
    \/ pc[l] = "ready" /\ pc'[l] = "done"
    \/ iter'[l] = iter[l] + 1

\* C1: when the provider answers k times with a status other than SUCCESS
\* and then with SUCCESS (k < max_iterations), deploy_loop returns that last
\* event after exactly k+1 provider invocations and exactly k sleeps; it
\* returns an event in no other case.
C1_SuccessAfterK ==
    \A l \in Invocations :
        InLoop(l) =>
            /\ seen[l]["SUCCESS"] >= 1 =>
                  /\ seen[l]["SUCCESS"] = 1
                  /\ attempt[l].kind = "event"
                  /\ attempt[l].event.status = "SUCCESS"
                  /\ NonSuccess(l) < max_iterations[l]
                  /\ Len(invoked[l]) = NonSuccess(l) + 1
                  /\ sleeps[l] = NonSuccess(l)
                  /\ pc[l] \in {"check", "done"}
                  /\ pc[l] = "done" => outcome[l] = Returned(attempt[l].event)
            /\ outcome[l].kind = "returned" => seen[l]["SUCCESS"] = 1

C1_Witness ==
    /\ InLoop("I1")
    /\ pc["I1"] = "done"
    /\ outcome["I1"].kind = "returned"
    /\ NonSuccess("I1") = 2
    /\ sleeps["I1"] = 2
    /\ Len(invoked["I1"]) = 3

\* C2: when no attempt raises and none of max_iterations attempts reports
\* SUCCESS, deploy_loop raises the timeout error after exactly
\* max_iterations provider invocations and returns no event; the provider
\* is never invoked more than max_iterations times.
C2_TimeoutAfterMax ==
    \A l \in Invocations :
        InLoop(l) =>
            /\ Len(invoked[l]) <= max_iterations[l]
            /\ (pc[l] = "done" /\ seen[l]["SUCCESS"] = 0 /\ attempt[l].kind # "error") =>
                  /\ outcome[l] = Raised(DeployTimeoutError)
                  /\ Len(invoked[l]) = max_iterations[l]
                  /\ NonSuccess(l) = max_iterations[l]
            /\ outcome[l] = Raised(DeployTimeoutError) =>
                  /\ Len(invoked[l]) = max_iterations[l]
                  /\ seen[l]["SUCCESS"] = 0

C2_Witness ==
    /\ InLoop("I1")
    /\ pc["I1"] = "done"
    /\ outcome["I1"] = Raised(DeployTimeoutError)
    /\ max_iterations["I1"] = 3
    /\ Len(invoked["I1"]) = 3

\* C3: an event that deploy_loop returns has status SUCCESS; a FAILED event
\* is followed by the merge and the sleep like any other status, and a
\* provider that reports FAILED on every attempt makes the loop use all
\* max_iterations attempts and raise the timeout error.
C3_OnlySuccessReturned ==
    \A l \in Invocations :
        InLoop(l) =>
            /\ outcome[l].kind = "returned" => outcome[l].event.status = "SUCCESS"
            /\ (pc[l] = "check" /\ attempt[l].event.status = "FAILED") =>
                  ENABLED LoopMerge(l) /\ ~ENABLED LoopReturn(l)
            /\ (/\ pc[l] = "done"
                /\ attempt[l].kind # "error"
                /\ seen[l]["SUCCESS"] = 0
                /\ seen[l]["UNDERWAY"] = 0) =>
                  /\ outcome[l] = Raised(DeployTimeoutError)
                  /\ seen[l]["FAILED"] = max_iterations[l]
                  /\ Len(invoked[l]) = max_iterations[l]

C3_Witness ==
    /\ InLoop("I1")
    /\ pc["I1"] = "done"
    /\ outcome["I1"] = Raised(DeployTimeoutError)
    /\ max_iterations["I1"] >= 2
    /\ seen["I1"]["FAILED"] = max_iterations["I1"]

\* The callbackContext of the payload object invocation l works on.
CurrentContext(l) == heap[payload[l]].callbackContext

\* C4 (state part): after an attempt that did not report SUCCESS, the
\* payload's callbackContext is the callbackContext of that attempt (as the
\* attempt left it: the value passed in, unless the provider changed
\* request.custom_context in place) overridden by the event's
\* custom_context: the event's keys carry the event's values, every other
\* key keeps its value.
C4_Merged(l) ==
    LET prev == prevContext[l]
        ev   == attempt[l].event.custom_context
        ctx  == CurrentContext(l)
    IN  /\ DOMAIN ctx = (DOMAIN prev) \cup (DOMAIN ev)
        /\ \A k \in DOMAIN ev : ctx[k] = ev[k]
        /\ \A k \in (DOMAIN prev) \ (DOMAIN ev) : ctx[k] = prev[k]
        /\ attempt[l].inplace.op = "keep" => prev = attempt[l].request.custom_context

\* C4 (step part): the context an attempt receives is the payload's
\* callbackContext as the previous merge left it.
C4_Passed(l) ==
    (AttemptStep(l) /\ attempt'[l].converted = 1) =>
        attempt'[l].request.custom_context = CurrentContext(l)

NewlyInvoked(l) == SubSeq(invoked'[l], Len(invoked[l]) + 1, Len(invoked'[l]))

C5_Dispatch(l) ==
    (AttemptStep(l) /\ executor[l].resource_type \in DOMAIN PRIVATE_REGISTRY) =>
        LET a == heap[payload[l]].action
        IN  /\ a = "Add" => NewlyInvoked(l) = <<"create">>
            /\ a \in {"Modify", "Dynamic"} => NewlyInvoked(l) = <<"update">>
            /\ a = "Remove" => NewlyInvoked(l) = <<"delete">>
            /\ a \notin {"Add", "Modify", "Dynamic", "Remove"} =>
                  /\ NewlyInvoked(l) = <<>>
                  /\ attempt'[l].kind = "error"
                  /\ attempt'[l].error = UnsupportedActionError(a)

\* C5: with the executor's type registered, one execute_action call invokes
\* create alone for "Add", update alone for "Modify" and "Dynamic", delete
\* alone for "Remove", and for any other action raises NotImplementedError
\* naming the action, invoking no capability.
C5_ActionMapping == [][\A l \in Invocations : C5_Dispatch(l)]_vars

C5_Witness ==
    /\ attempt["I1"].action = "Dynamic"
    /\ attempt["I1"].path = "provider"
    /\ invoked["I1"] = <<"update">>

C6_Absent(l) ==
    (AttemptStep(l) /\ executor[l].resource_type \notin DOMAIN PRIVATE_REGISTRY) =>
        /\ attempt'[l].kind = "error"
        /\ attempt'[l].error.cls = "NotImplementedError"
        /\ outcome'[l] = Raised(attempt'[l].error)
        /\ converted'[l] = converted[l]
        /\ instantiated'[l] = instantiated[l]
        /\ invoked'[l] = invoked[l]
        /\ heap' = heap

\* C6: with the executor's type absent from the private registry, an
\* execute_action call raises NotImplementedError whatever the action is,
\* and translates no payload, constructs no provider and invokes no
\* capability.
C6_UnregisteredFails == [][\A l \in Invocations : C6_Absent(l)]_vars

C6_Witness ==
    /\ attempt["I1"].path = "unregistered"
    /\ attempt["I1"].action = "Remove"
    /\ outcome["I1"] = Raised(UnregisteredError)
    /\ converted["I1"] = 0
    /\ instantiated["I1"] = 0
    /\ invoked["I1"] = <<>>

\* C7: an attempt of deploy_loop that raises ends the loop at that attempt:
\* the error raised is the error of deploy_loop (not the timeout error), no
\* sleep follows it and no further attempt is made, however many iterations
\* remain.
C7_ErrorPropagates ==
    \A l \in Invocations :
        (InLoop(l) /\ attempt[l].kind = "error") =>
            /\ pc[l] = "done"
            /\ outcome[l] = Raised(attempt[l].error)
            /\ outcome[l].error # DeployTimeoutError
            /\ sleeps[l] = iter[l] - 1
            /\ Len(invoked[l]) <= iter[l]
            /\ ~ENABLED LoopSleep(l)
            /\ ~ENABLED LoopMerge(l)
            /\ ~ENABLED (\E beh \in Behaviours : LoopAttempt(l, beh))

C7_Witness ==
    /\ InLoop("I1")
    /\ attempt["I1"].kind = "error"
    /\ attempt["I1"].path = "provider"
    /\ outcome["I1"] = Raised(ProviderError)
    /\ iter["I1"] = 2
    /\ max_iterations["I1"] = 3
    /\ sleeps["I1"] = 1

\* C8: from the call of deploy_loop on, the caller's payload object keeps
\* the value it had at the call, whatever the attempts merge and whatever a
\* provider changes in place through request.custom_context.
C8_RawPayloadUntouched ==
    \A l \in Invocations : InLoop(l) => heap[RawRef] = rawAtCall[l]

C8_Witness ==
    /\ InLoop("I1")
    /\ pc["I1"] = "done"
    /\ sleeps["I1"] >= 1
    /\ attempt["I1"].inplace.op = "set"
    /\ CurrentContext("I1") # heap[RawRef].callbackContext
    /\ heap[RawRef] = rawAtCall["I1"]

\* C9: the error execute_action raises for a registered class that does not
\* implement the capability differs from the error it raises for a type
\* that is not registered.
C9_Distinguishable ==
    \A l1, l2 \in Invocations :
        (attempt[l1].path = "base" /\ attempt[l2].path = "unregistered") =>
            outcome[l1].error # outcome[l2].error

\* The registry holds, under every type name, the class most recently
\* registered under it, and nothing else.
C10_LastWins ==
    /\ DOMAIN PRIVATE_REGISTRY \subseteq TypeNames
    /\ \A n \in TypeNames :
          /\ n \in DOMAIN PRIVATE_REGISTRY <=> lastReg[n] # None
          /\ n \in DOMAIN PRIVATE_REGISTRY => PRIVATE_REGISTRY[n] = lastReg[n]

\* Registering a class again changes nothing, a later class of the same
\* name replaces the earlier one, and other names keep their entry.
C10_Algebra ==
    \A c \in Classes :
        LET once == register_resource_provider(PRIVATE_REGISTRY, c)
        IN  /\ register_resource_provider(once, c) = once
            /\ Truthy(TypeOf(c)) => (TypeOf(c) \in DOMAIN once /\ once[TypeOf(c)] = c)
            /\ \A n \in DOMAIN PRIVATE_REGISTRY :
                  n # TypeOf(c) => (n \in DOMAIN once /\ once[n] = PRIVATE_REGISTRY[n])
            /\ DOMAIN once \subseteq (DOMAIN PRIVATE_REGISTRY) \cup {TypeOf(c)}

\* A step that changes the registry constructs no provider and makes no call.
C10_NoInstance ==
    PRIVATE_REGISTRY' # PRIVATE_REGISTRY =>
        /\ instantiated' = instantiated
        /\ invoked' = invoked
        /\ converted' = converted

\* C10: registration is last-wins per type name and idempotent, leaves the
\* entries of other names alone and constructs no provider.
C10_RegisterLastWins ==
    /\ [](C10_LastWins /\ C10_Algebra)
    /\ [][C10_NoInstance]_vars

C10_Witness ==
    /\ attempt["I1"].path = "provider"
    /\ invoked["I1"] = <<"update">>
    /\ executor["I1"].resource_type = "T1"
    /\ PRIVATE_REGISTRY = [n \in TypeNames |-> IF n = "T1" THEN "Alt" ELSE "Bare"]

\* The step is an execute_action call of invocation l on a provider that
\* behaves as beh says.
C11_Call(l, beh) ==
    \/ ExecuteActionCall(l, beh)
    \/ LoopAttempt(l, beh)

C11_Step(l) ==
    (AttemptStep(l) /\ attempt'[l].kind = "event") =>
        /\ Len(invoked'[l]) = Len(invoked[l]) + 1
        /\ instantiated'[l] = instantiated[l] + 1
        /\ converted'[l] = converted[l] + 1
        /\ sleeps' = sleeps
        /\ mode'[l] = "execute_action" =>
              /\ pc'[l] = "done"
              /\ outcome'[l] = Returned(attempt'[l].event)
        /\ \A beh \in Behaviours :
              (beh.inplace = attempt'[l].inplace /\ C11_Call(l, beh)) =>
                  /\ attempt'[l].event.status = beh.status
                  /\ attempt'[l].event.resource_model = attempt'[l].request.desired_state
                  /\ attempt'[l].event.message = beh.message
                  /\ attempt'[l].event.result = beh.result
                  /\ attempt'[l].event.error_code = beh.error_code
                  /\ attempt'[l].event.custom_context = beh.custom_context

\* C11: an execute_action call that returns makes exactly one capability
\* invocation on exactly one provider it has just constructed, does not
\* sleep, and returns the provider's event with status, resource_model,
\* message, result, error_code and custom_context as the provider set them;
\* a direct call is over after that one invocation.
C11_OneShot == [][\A l \in Invocations : C11_Step(l)]_vars

C11_Witness ==
    /\ mode["I1"] = "execute_action"
    /\ pc["I1"] = "done"
    /\ outcome["I1"].kind = "returned"
    /\ outcome["I1"].event.status = "FAILED"
    /\ outcome["I1"].event.message = "failed"
    /\ outcome["I1"].event.error_code = "InternalFailure"
    /\ outcome["I1"].event.custom_context = [k \in {"b"} |-> 1]
    /\ Len(invoked["I1"]) = 1
    /\ instantiated["I1"] = 1
    /\ sleeps["I1"] = 0

\* A loop attempt of invocation l that reaches a registered class.
C12_Attempt(l) == InLoop(l) /\ AttemptStep(l) /\ attempt'[l].converted = 1

\* The attempt constructs a provider and a request of its own: the request
\* is not the one of the attempt before, and apart from its token it is
\* determined by the payload the caller passed and the callbackContext the
\* loop has merged so far.
C12_Fresh(l) ==
    C12_Attempt(l) =>
        /\ instantiated'[l] = instantiated[l] + 1
        /\ converted'[l] = converted[l] + 1
        /\ attempt'[l].request.request_token = <<l, converted'[l]>>
        /\ attempt[l].converted = 1 =>
              attempt'[l].request.request_token # attempt[l].request.request_token
        /\ attempt'[l].request =
              [convert_payload(executor[l].stack_name, executor[l].stack_id,
                               rawAtCall[l], <<l, converted'[l]>>)
                 EXCEPT !.custom_context = CurrentContext(l)]

\* As many providers and requests have been constructed as attempts have
\* reached a registered class, and never more than attempts were made.
C12_Counts ==
    \A l \in Invocations :
        InLoop(l) =>
            /\ instantiated[l] = converted[l]
            /\ instantiated[l] <= iter[l]
            /\ attempt[l].converted = 1 =>
                  /\ instantiated[l] = iter[l]
                  /\ attempt[l].request.request_token = <<l, iter[l]>>

C13_PreviousStateCarried ==
    \A l \in Invocations :
        (/\ attempt[l].converted = 1
         /\ attempt[l].action \in {"Modify", "Dynamic", "Remove"}
         /\ attempt[l].caps # <<>>) =>
            /\ attempt[l].request.previous_state =
                  heap[payload[l]].requestData.previousResourceProperties
            /\ attempt[l].request.desired_state =
                  heap[payload[l]].requestData.resourceProperties

\* The request of an attempt carries the callbackContext of the payload
\* given to execute_action: the same keys with the same values.
C14_Verbatim(l) ==
    (AttemptStep(l) /\ attempt'[l].converted = 1) =>
        LET given == heap[payload[l]].callbackContext
            got   == attempt'[l].request.custom_context
        IN  /\ DOMAIN got = DOMAIN given
            /\ \A k \in DOMAIN given : got[k] = given[k]

\* A later attempt of deploy_loop receives the context merged after the
\* attempt before it.
C14_SeesMerged(l) ==
    (C12_Attempt(l) /\ iter[l] >= 1) =>
        attempt'[l].request.custom_context =
            DictMerge(prevContext[l], attempt[l].event.custom_context)

\* C14: the custom_context of the request a provider receives equals the
\* callbackContext of the payload given to that attempt, key for key; in
\* deploy_loop attempt i+1 therefore receives the context merged after
\* attempt i.
C14_ContextVerbatim ==
    [][\A l \in Invocations : C14_Verbatim(l) /\ C14_SeesMerged(l)]_vars

C14_Witness ==
    /\ InLoop("I1")
    /\ iter["I1"] = 2
    /\ pc["I1"] = "check"
    /\ rawAtCall["I1"].callbackContext = [k \in {"a"} |-> 1]
    /\ attempt["I1"].request.custom_context = [k \in Keys |-> 1]

\* The three ways a deploy_loop call can end.
C15_ReturnedSuccess(l) ==
    outcome[l].kind = "returned" /\ outcome[l].event.status = "SUCCESS"

C15_TimedOut(l) == outcome[l] = Raised(DeployTimeoutError)

C15_Propagated(l) ==
    /\ outcome[l].kind = "raised"
    /\ attempt[l].kind = "error"
    /\ outcome[l].error = attempt[l].error
    /\ outcome[l].error # DeployTimeoutError

C15_Outcomes(l) ==
    InLoop(l) =>
        /\ pc[l] # "done" => outcome[l] = NoOutcome
        /\ pc[l] = "done" =>
              /\ C15_ReturnedSuccess(l) \/ C15_TimedOut(l) \/ C15_Propagated(l)
              /\ ~(C15_ReturnedSuccess(l) /\ C15_TimedOut(l))
              /\ ~(C15_ReturnedSuccess(l) /\ C15_Propagated(l))
              /\ ~(C15_TimedOut(l) /\ C15_Propagated(l))
        /\ (pc[l] = "done" /\ max_iterations[l] = 0) =>
              /\ C15_TimedOut(l)
              /\ invoked[l] = <<>>
              /\ instantiated[l] = 0
              /\ converted[l] = 0
              /\ iter[l] = 0
              /\ sleeps[l] = 0

\* C15: a deploy_loop call whose provider calls all return or raise ends,
\* for every max_iterations >= 0, and ends in exactly one of three ways: it
\* returns a SUCCESS event, it raises the timeout error, or it raises the
\* error of an attempt; with max_iterations = 0 it raises the timeout error
\* and has invoked no provider.
C15_Terminates ==
    /\ [](\A l \in Invocations : C15_Outcomes(l))
    /\ InLoop("I1") ~> (pc["I1"] = "done")

C15_Witness ==
    /\ InLoop("I1")
    /\ max_iterations["I1"] = 0
    /\ pc["I1"] = "done"
    /\ outcome["I1"] = Raised(DeployTimeoutError)
    /\ instantiated["I1"] = 0
    /\ executor["I1"].resource_type \in DOMAIN PRIVATE_REGISTRY

\* Sleeps made against attempts started, by the position in the loop: an
\* attempt is under way or just over with one sleep fewer than attempts,
\* and the loop is back at the for statement with as many sleeps as
\* attempts.
C16_Counts(l) ==
    InLoop(l) =>
        /\ pc[l] = "for" => sleeps[l] = iter[l]
        /\ pc[l] \in {"check", "sleep"} => sleeps[l] = iter[l] - 1
        /\ pc[l] = "done" => sleeps[l] \in {iter[l] - 1, iter[l]}
        /\ sleeps[l] >= 1 => Len(invoked[l]) >= 1

\* A later attempt starts after the one before it has returned an event,
\* that event's context has been merged and one sleep has been made.
C16_AttemptAfterSleep(l) ==
    (InLoop(l) /\ iter'[l] = iter[l] + 1) =>
        /\ sleeps[l] = iter[l]
        /\ sleeps'[l] = sleeps[l]
        /\ iter[l] >= 1 =>
              /\ attempt[l].kind = "event"
              /\ CurrentContext(l) =
                    DictMerge(prevContext[l], attempt[l].event.custom_context)

\* A sleep is made after an attempt has returned and its context has been
\* merged, and it is the only one for that attempt.
C16_SleepAfterMerge(l) ==
    (InLoop(l) /\ sleeps'[l] # sleeps[l]) =>
        /\ sleeps'[l] = sleeps[l] + 1
        /\ sleeps[l] = iter[l] - 1
        /\ iter'[l] = iter[l]
        /\ invoked'[l] = invoked[l]
        /\ attempt[l].kind = "event"
        /\ CurrentContext(l) =
              DictMerge(prevContext[l], attempt[l].event.custom_context)

\* C16: in one deploy_loop call attempts and sleeps alternate: the first
\* attempt comes before any sleep, and every later attempt comes after the
\* attempt before it has returned, its context has been merged and exactly
\* one sleep has been made.
C16_Alternation ==
    /\ [](\A l \in Invocations : C16_Counts(l))
    /\ [][\A l \in Invocations :
            C16_AttemptAfterSleep(l) /\ C16_SleepAfterMerge(l)]_vars

C16_Witness ==
    /\ InLoop("I1")
    /\ pc["I1"] = "check"
    /\ iter["I1"] = 3
    /\ sleeps["I1"] = 2
    /\ invoked["I1"] = <<"delete", "delete", "delete">>

\* What belongs to invocation o: its variables and its payload copy.
C17_Own(o) ==
    <<executor[o], pc[o], mode[o], max_iterations[o], iter[o], payload[o],
      attempt[o], outcome[o], sleeps[o], invoked[o], seen[o], instantiated[o],
      converted[o], rawAtCall[o], prevContext[o], heap[payload[o]]>>

\* A step of invocation l leaves what belongs to the other invocation, and
\* the caller's payload object, as they were.
C17_Frame(l, o) ==
    (l # o /\ pc'[l] # pc[l] /\ InLoop(l) /\ InLoop(o)) =>
        /\ C17_Own(o)' = C17_Own(o)
        /\ heap'[RawRef] = heap[RawRef]

\* The callbackContext of invocation l is made of what l itself was given
\* and did: the caller's context before the first attempt, the context its
\* last attempt left after an attempt, and that context overridden by its
\* own last event after a merge.
C17_OwnContext(l) ==
    InLoop(l) =>
        /\ iter[l] = 0 => CurrentContext(l) = rawAtCall[l].callbackContext
        /\ (/\ iter[l] >= 1
            /\ attempt[l].converted = 1
            /\ pc[l] = "check" \/ (pc[l] = "done" /\ ~C15_TimedOut(l))) =>
              CurrentContext(l) = prevContext[l]
        /\ (/\ iter[l] >= 1
            /\ pc[l] \in {"sleep", "for"} \/ (pc[l] = "done" /\ C15_TimedOut(l))) =>
              CurrentContext(l) =
                  DictMerge(prevContext[l], attempt[l].event.custom_context)

\* The outcome of invocation l is that of its own attempts.
C17_OwnOutcome(l) ==
    (InLoop(l) /\ pc[l] = "done") =>
        \/ /\ attempt[l].kind = "error"
           /\ outcome[l] = Raised(attempt[l].error)
        \/ /\ attempt[l].kind = "event"
           /\ attempt[l].event.status = "SUCCESS"
           /\ outcome[l] = Returned(attempt[l].event)
        \/ /\ outcome[l] = Raised(DeployTimeoutError)
           /\ seen[l]["SUCCESS"] = 0
           /\ iter[l] = max_iterations[l]
           /\ sleeps[l] = max_iterations[l]

\* An attempt of invocation l is the execute_action call on l's own copy.
C17_OwnAttempt(l) ==
    (InLoop(l) /\ iter'[l] = iter[l] + 1) =>
        \E beh \in PairBehaviours :
            /\ beh.inplace = attempt'[l].inplace
            /\ attempt'[l] = execute_action(PRIVATE_REGISTRY, executor[l],
                                            [rawAtCall[l] EXCEPT
                                               !.callbackContext = CurrentContext(l)],
                                            <<l, iter'[l]>>, beh)

\* C17: two deploy_loop calls given the same payload object, their steps
\* interleaved in any order, do not touch each other: a step of one leaves
\* the other's copy and state alone, the callbackContext of each comes from
\* its own attempts and events, and each ends as its own attempts decide.
C17_NoInterference ==
    /\ [](\A l \in Invocations : C17_OwnContext(l) /\ C17_OwnOutcome(l))
    /\ [][\A l \in Invocations :
            /\ C17_OwnAttempt(l)
            /\ \A o \in Invocations : C17_Frame(l, o)]_vars

C17_Witness ==
    /\ InLoop("I1") /\ InLoop("I2")
    /\ executor["I1"] = executor["I2"]
    /\ rawAtCall["I1"] = rawAtCall["I2"]
    /\ pc["I1"] = "sleep" /\ iter["I1"] = 2
    /\ pc["I2"] = "sleep" /\ iter["I2"] = 1
    /\ CurrentContext("I1") = [k \in Keys |-> IF k = "a" THEN 2 ELSE 1]
    /\ CurrentContext("I2") = [k \in {"b"} |-> 1]

\* A step of a call (construction, execute_action, any step of deploy_loop)
\* writes neither registry, and a registration does not write the public
\* one.
C18_NoWrite ==
    /\ (\E l \in Invocations : pc'[l] # pc[l]) =>
          /\ PRIVATE_REGISTRY' = PRIVATE_REGISTRY
          /\ PUBLIC_REGISTRY' = PUBLIC_REGISTRY
    /\ PRIVATE_REGISTRY' # PRIVATE_REGISTRY => PUBLIC_REGISTRY' = PUBLIC_REGISTRY

\* An execute_action call for a type that only the public registry holds
\* fails as for a type that no registry holds.
C18_NotConsulted(l) ==
    (/\ AttemptStep(l)
     /\ executor[l].resource_type \in DOMAIN PUBLIC_REGISTRY
     /\ executor[l].resource_type \notin DOMAIN PRIVATE_REGISTRY) =>
        /\ attempt'[l].path = "unregistered"
        /\ attempt'[l].error = UnregisteredError
        /\ outcome'[l] = Raised(UnregisteredError)
        /\ instantiated'[l] = instantiated[l]
        /\ invoked'[l] = invoked[l]

\* C18: execute_action and deploy_loop write neither registry, whatever
\* their outcome; the module never populates the public registry, and
\* execute_action does not consult it: a type held by the public registry
\* alone fails as unregistered.
C18_RegistriesFrame ==
    [][C18_NoWrite /\ \A l \in Invocations : C18_NotConsulted(l)]_vars

C18_Witness ==
    /\ PUBLIC_REGISTRY = [n \in {"T1"} |-> "Full"]
    /\ PRIVATE_REGISTRY = [n \in {"T2"} |-> "Bare"]
    /\ executor["I1"].resource_type = "T1"
    /\ InLoop("I1")
    /\ iter["I1"] = 1
    /\ outcome["I1"] = Raised(UnregisteredError)

\* A call that has ended in the timeout error has slept once per attempt,
\* the last attempt included, and holds the context merged after the last
\* attempt.
C19_TimedOutState(l) ==
    (InLoop(l) /\ outcome[l] = Raised(DeployTimeoutError)) =>
        /\ sleeps[l] = max_iterations[l]
        /\ iter[l] = max_iterations[l]
        /\ NonSuccess(l) = max_iterations[l]
        /\ max_iterations[l] >= 1 =>
              CurrentContext(l) =
                  DictMerge(prevContext[l], attempt[l].event.custom_context)

\* The timeout error is raised at the for statement, which the loop
\* reaches from an attempt only through the merge and the sleep; an
\* attempt's event is followed by the return or by the merge.
C19_RaisedAfterSleep(l) ==
    /\ (InLoop(l) /\ outcome'[l] = Raised(DeployTimeoutError)
                  /\ outcome[l] # outcome'[l]) =>
          /\ pc[l] = "for"
          /\ sleeps[l] = max_iterations[l]
          /\ sleeps'[l] = sleeps[l]
          /\ invoked'[l] = invoked[l]
    /\ (InLoop(l) /\ pc[l] = "check" /\ pc'[l] # pc[l]) =>
          \/ pc'[l] = "done" /\ outcome'[l] = Returned(attempt[l].event)
          \/ /\ pc'[l] = "sleep"
             /\ outcome'[l] = NoOutcome
             /\ CurrentContext(l)' =
                   DictMerge(CurrentContext(l), attempt[l].event.custom_context)
    /\ (InLoop(l) /\ pc[l] = "sleep" /\ pc'[l] # pc[l]) =>
          /\ pc'[l] = "for"
          /\ sleeps'[l] = sleeps[l] + 1
          /\ outcome'[l] = NoOutcome

\* C19: a deploy_loop call that ends in the timeout error has merged the
\* context and slept after every attempt, the last one included: it has
\* made exactly max_iterations sleeps, and the error is raised after the
\* sleep that follows the last attempt, not right after that attempt's
\* event.
C19_SleepsBeforeTimeout ==
    /\ [](\A l \in Invocations : C19_TimedOutState(l))
    /\ [][\A l \in Invocations : C19_RaisedAfterSleep(l)]_vars

C19_Witness ==
    /\ InLoop("I1")
    /\ outcome["I1"] = Raised(DeployTimeoutError)
    /\ max_iterations["I1"] = 2
    /\ sleeps["I1"] = 2
    /\ attempt["I1"].event.status = "FAILED"
    /\ attempt["I1"].event.custom_context = [k \in {"b"} |-> 1]
    /\ "b" \in DOMAIN CurrentContext("I1")

\* C20: during one deploy_loop call the key set of the payload's
\* callbackContext never shrinks: a key of the initial callbackContext or
\* of an earlier event's custom_context is present in the callbackContext
\* of every later attempt.
C20_KeysNeverShrink ==
    [][\A l \in Invocations :
         (InLoop(l) /\ InLoop(l)') =>
             DOMAIN CurrentContext(l) \subseteq DOMAIN CurrentContext(l)']_vars
====
